---- MODULE Spec2Model ----
(***************************************************************************)
(* Upload orchestration of the Obsidian plugin "Image Uploader to API":    *)
(* drop/paste interception, per-file dispatch, the placeholder protocol    *)
(* and the upload client.                                                  *)
(*                                                                         *)
(* Texts.  A text is a sequence of symbols.  File names, URLs, paths and   *)
(* user text are sequences of one-character strings.  The fixed pieces of  *)
(* the template literals of the source ("![Uploading ", "...]()", "![](",  *)
(* "[", "](", ")", "![[", "]]", ...) are one symbol each.  Every such      *)
(* piece holds one of the characters ! [ ] ( ) which the input alphabets   *)
(* below never hold, so a search by symbols finds a pattern exactly where  *)
(* the search by characters finds it.                                      *)
(*                                                                         *)
(* Scheduling.  JavaScript runs each callback to completion; an action is  *)
(* one such run: from the host calling back (an event, a promise settled   *)
(* by the host) to the next await of a host promise.                       *)
(***************************************************************************)
EXTENDS Integers, Sequences, FiniteSets, TLC

VARIABLES
    settings,   \* this.settings (ImageUploaderSettings)
    doc,        \* the text of the editor (editor.getValue())
    caret,      \* the editor's cursor, 0..Len(doc); the selection is empty
    evt,        \* the native drop/paste event dispatched last, as the handler left it
    dropped,    \* the number of files the events have carried so far
    tasks,      \* one per intercepted event: the async function of handleFiles
    notices,    \* the Notice objects created, in order
    requests,   \* the requestUrl calls made, in order
    vault,      \* the attachments created by vault.createBinary, in order
    edits,      \* the number of edits the user has made
    call        \* one call of a function taken by itself: its arguments and what it returned

vars == <<settings, doc, caret, evt, dropped, tasks, notices, requests, vault, edits, call>>

----------------------------------------------------------------------------
(* Bounds *)

MaxEvents == 2      \* drop/paste events in one behaviour
MaxBatch == 2       \* files carried by one event
MaxFiles == 2       \* files carried by all events of one behaviour
MaxEdits == 1       \* user edits in one behaviour

----------------------------------------------------------------------------
(* Texts *)

\* String.prototype.indexOf, 1-based; 0 when the pattern does not occur.
IndexOf(text, pat) ==
    LET at == {i \in 1..(Len(text) - Len(pat) + 1) :
                  SubSeq(text, i, i + Len(pat) - 1) = pat}
    IN IF at = {} THEN 0 ELSE CHOOSE i \in at : \A k \in at : i <= k

\* GetSubstitution of ECMAScript for a string pattern (no capture groups):
\* in the replacement $$ is $, $& is the match, $` the text before the match,
\* $' the text after it; any other $ stands for itself.
RECURSIVE GetSubstitution(_, _, _, _)
GetSubstitution(repl, matched, before, after) ==
    IF repl = <<>> THEN <<>>
    ELSE IF Head(repl) = "$" /\ Len(repl) >= 2 /\ repl[2] \in {"$", "&", "`", "'"}
    THEN (CASE repl[2] = "$" -> <<"$">>
            [] repl[2] = "&" -> matched
            [] repl[2] = "`" -> before
            [] repl[2] = "'" -> after)
         \o GetSubstitution(SubSeq(repl, 3, Len(repl)), matched, before, after)
    ELSE <<Head(repl)>> \o GetSubstitution(Tail(repl), matched, before, after)

\* replace taking out every occurrence of the pattern, as replaceAll does.
RECURSIVE replaceEvery(_, _, _)
replaceEvery(content, pattern, replacement) ==
    LET p == IndexOf(content, pattern)
        before == SubSeq(content, 1, p - 1)
        after == SubSeq(content, p + Len(pattern), Len(content))
    IN IF p = 0 THEN content
       ELSE before \o GetSubstitution(replacement, pattern, before, after)
            \o replaceEvery(after, pattern, replacement)

\* content.replace(pattern, replacement) with a string pattern: the first
\* occurrence only, the replacement expanded by GetSubstitution.
replace(content, pattern, replacement) ==
    LET p == IndexOf(content, pattern)
        before == SubSeq(content, 1, p - 1)
        after == SubSeq(content, p + Len(pattern), Len(content))
    IN IF p = 0 THEN content
       ELSE before \o GetSubstitution(replacement, pattern, before, after) \o after

UpperChars == <<"A", "B", "C", "D", "E", "F", "G", "H", "I", "J", "K", "L", "M",
                "N", "O", "P", "Q", "R", "S", "T", "U", "V", "W", "X", "Y", "Z">>
LowerChars == <<"a", "b", "c", "d", "e", "f", "g", "h", "i", "j", "k", "l", "m",
                "n", "o", "p", "q", "r", "s", "t", "u", "v", "w", "x", "y", "z">>

toLowerCase(text) ==
    [i \in 1..Len(text) |->
        IF \E k \in 1..Len(UpperChars) : UpperChars[k] = text[i]
        THEN LowerChars[CHOOSE k \in 1..Len(UpperChars) : UpperChars[k] = text[i]]
        ELSE text[i]]

\* text.split(sep) for a one-character separator: at least one piece.
RECURSIVE split(_, _)
split(text, sep) ==
    LET p == IndexOf(text, <<sep>>)
    IN IF p = 0 THEN <<text>>
       ELSE <<SubSeq(text, 1, p - 1)>> \o split(SubSeq(text, p + 1, Len(text)), sep)

\* Array.prototype.pop() of a non-empty array: its last element.
pop(arr) == arr[Len(arr)]

----------------------------------------------------------------------------
(* Classifier *)

IMAGE_EXTENSIONS ==
    { <<"j", "p", "g">>, <<"j", "p", "e", "g">>, <<"p", "n", "g">>,
      <<"g", "i", "f">>, <<"w", "e", "b", "p">>, <<"s", "v", "g">>,
      <<"a", "v", "i", "f">>, <<"i", "c", "o">> }

isPdfFile(name) == toLowerCase(pop(split(name, "."))) = <<"p", "d", "f">>

isImageFile(name) == toLowerCase(pop(split(name, "."))) \in IMAGE_EXTENSIONS

----------------------------------------------------------------------------
(* Decoded JSON values and the Response Extractor *)

\* A decoded JSON value: its type t, the text s of a string, and the members
\* kids of an object ([k |-> key, v |-> value], in source order) or of an
\* array (keys "0", "1", ...).
JString(s) == [t |-> "string", s |-> s, kids |-> <<>>]
JNumber(s) == [t |-> "number", s |-> s, kids |-> <<>>]
JNull == [t |-> "null", s |-> <<>>, kids |-> <<>>]
JUndefined == [t |-> "undefined", s |-> <<>>, kids |-> <<>>]
JObject(kids) == [t |-> "object", s |-> <<>>, kids |-> kids]
JArray(elems) ==
    [t |-> "array", s |-> <<>>,
     kids |-> [i \in 1..Len(elems) |-> [k |-> <<ToString(i - 1)>>, v |-> elems[i]]]]

\* current[key] of an object or an array: own members only; of duplicate
\* keys of a JSON object the last one is kept by the parser.
getProperty(current, key) ==
    LET hits == {i \in 1..Len(current.kids) : current.kids[i].k = key}
    IN IF hits # {}
       THEN current.kids[CHOOSE i \in hits : \A k \in hits : k <= i].v
       ELSE IF current.t = "array" /\ key = <<"l", "e", "n", "g", "t", "h">>
       THEN JNumber(<<ToString(Len(current.kids))>>)
       ELSE JUndefined

\* walkPath stopping at an array as at a scalar.
RECURSIVE walkPathMappingsOnly(_, _)
walkPathMappingsOnly(current, keys) ==
    IF keys = <<>> THEN current
    ELSE IF current.t # "object" THEN JUndefined
    ELSE walkPathMappingsOnly(getProperty(current, Head(keys)), Tail(keys))

RECURSIVE walkPath(_, _)
walkPath(current, keys) ==
    IF keys = <<>> THEN current
    ELSE IF current.t \in {"null", "undefined"} \/ current.t \notin {"object", "array"}
    THEN JUndefined
    ELSE walkPath(getProperty(current, Head(keys)), Tail(keys))

\* getByPath taking the empty path for the root.
getByPathRootWhenEmpty(obj, path) ==
    IF path = <<>> THEN obj ELSE walkPath(obj, split(path, "."))

getByPath(obj, path) == walkPath(obj, split(path, "."))

----------------------------------------------------------------------------
(* Upload Client: what upload() makes of the answer of requestUrl *)

\* The answer of the host's requestUrl: it rejects with an error, or it
\* returns a response whose body parses as JSON or does not (response.json
\* then throws the error).
Rejected(error) ==
    [rejects |-> TRUE, error |-> error, status |-> 0, parses |-> FALSE, json |-> JNull]
Responded(status, json) ==
    [rejects |-> FALSE, error |-> <<>>, status |-> status, parses |-> TRUE, json |-> json]
RespondedNoJson(status, error) ==
    [rejects |-> FALSE, error |-> error, status |-> status, parses |-> FALSE, json |-> JNull]

Return(url) == [ok |-> TRUE, url |-> url, message |-> <<>>, class |-> "success"]
Throw(message, class) == [ok |-> FALSE, url |-> <<>>, message |-> message, class |-> class]

statusIsFailure(status) == status < 200 \/ status >= 300

\* urlIsMissing without the test `!url`.
urlIsNotAString(url) == url.t # "string"

urlIsMissing(url) == url.t # "string" \/ url.s = <<>>

\* text.trim(): the blanks at both ends go.
trim(text) ==
    LET inked == {i \in 1..Len(text) : text[i] # " "}
    IN IF inked = {} THEN <<>>
       ELSE SubSeq(text, CHOOSE i \in inked : \A k \in inked : i <= k,
                         CHOOSE i \in inked : \A k \in inked : k <= i)

\* headers[key] = value on the object headers, its keys in the order they
\* were first set.
setProperty(headers, key, value) ==
    IF \E i \in 1..Len(headers) : headers[i].key = key
    THEN [i \in 1..Len(headers) |->
             IF headers[i].key = key THEN [key |-> key, value |-> value] ELSE headers[i]]
    ELSE Append(headers, [key |-> key, value |-> value])

\* The loop over this.settings.headers.
RECURSIVE configuredHeaders(_, _)
configuredHeaders(headers, entries) ==
    IF entries = <<>> THEN headers
    ELSE LET entry == Head(entries)
         IN configuredHeaders(
                IF trim(entry.key) # <<>>
                THEN setProperty(headers, trim(entry.key), entry.value)
                ELSE headers,
                Tail(entries))

ContentType == <<"C", "o", "n", "t", "e", "n", "t", "-", "T", "y", "p", "e">>

\* "----ObsidianUploader" + Date.now().toString(36)
boundaryOf(now) == <<"----ObsidianUploader", now>>

multipartOf(boundary) == <<"multipart/form-data; boundary=">> \o boundary

\* The headers upload() hands to requestUrl.
requestHeaders(entries, boundary) ==
    setProperty(configuredHeaders(<<>>, entries), ContentType, multipartOf(boundary))

upload(resp, s) ==
    IF resp.rejects THEN Throw(resp.error, "transport")
    ELSE IF statusIsFailure(resp.status)
    THEN Throw(<<"Server responded with status ", ToString(resp.status)>>, "status")
    ELSE IF ~resp.parses THEN Throw(resp.error, "json")
    ELSE LET url == getByPath(resp.json, s.imageUrlPath)
         IN IF urlIsMissing(url)
            THEN Throw(<<"Could not extract URL from response using path \"">>
                       \o s.imageUrlPath \o <<"\"">>, "path")
            ELSE Return(url.s)

----------------------------------------------------------------------------
(* Placeholder Protocol: the texts *)

placeholderOf(name) == <<"![Uploading ">> \o name \o <<"...]()">>

markdownOf(name, url) ==
    IF isImageFile(name) THEN <<"![](">> \o url \o <<")">>
    ELSE <<"[">> \o name \o <<"](">> \o url \o <<")">>

embedOf(createdName) == <<"![[">> \o createdName \o <<"]]">>

\* noticeOf without the reason.
noticeWithoutReason(message) == <<"Image upload failed: ">>

noticeOf(message) == <<"Image upload failed: ">> \o message

----------------------------------------------------------------------------
(* Inputs *)

APng == <<"a", ".", "p", "n", "g">>
APdf == <<"a", ".", "p", "d", "f">>
NTxt == <<"n", ".", "t", "x", "t">>

FileNames == {APng, APdf, NTxt}

\* The file lists an event can carry.
Batches == UNION {[1..n -> FileNames] : n \in 0..MaxBatch}

PdfHandlings == {"default", "upload", "ask"}

UrlKey == <<"u", "r", "l">>

\* The answers of requestUrl the uploads are run against.
Responses ==
    << Rejected(<<"net::ERR_FAILED">>),
       Responded(500, JObject(<<>>)),
       RespondedNoJson(200, <<"Unexpected token">>),
       Responded(200, JObject(<<[k |-> <<"i", "d">>, v |-> JNumber(<<"1">>)]>>)),
       Responded(201, JObject(<<[k |-> UrlKey, v |-> JString(<<"h", "/", "x">>)]>>)),
       Responded(200, JObject(<<[k |-> UrlKey, v |-> JString(<<"h", "$", "&">>)]>>)) >>

\* The name the attachment storage gives a stored file: the file's own or,
\* when that is taken, another one.
StoredNames(name) == {name, <<"1", " ">> \o name}

----------------------------------------------------------------------------
(* The editor *)

\* The mutable world a callback works on, as one record.
World == [doc |-> doc, caret |-> caret, tasks |-> tasks, notices |-> notices,
          requests |-> requests, vault |-> vault]

\* replaceSelection putting text in the place of the whole text, as setValue does.
replaceWholeText(w, text) == [w EXCEPT !.doc = text, !.caret = Len(text)]

\* editor.replaceSelection(text) with an empty selection: text goes in at the
\* cursor, the cursor ends up behind it.
replaceSelection(w, text) ==
    [w EXCEPT !.doc = SubSeq(w.doc, 1, w.caret) \o text
                      \o SubSeq(w.doc, w.caret + 1, Len(w.doc)),
              !.caret = w.caret + Len(text)]

\* editor.setValue(content): the whole text is replaced; the host puts the
\* cursor at the start (home) or at the end.
setValue(w, content, home) ==
    [w EXCEPT !.doc = content, !.caret = IF home THEN 0 ELSE Len(content)]

----------------------------------------------------------------------------
(* Upload Orchestrator *)

\* shouldIntercept without the test of the PDF handling.
shouldInterceptAnyPdf(name, s) == isImageFile(name) \/ isPdfFile(name)

shouldIntercept(name, s) ==
    \/ isImageFile(name)
    \/ isPdfFile(name) /\ s.pdfHandling # "default"

NoResult == [ok |-> FALSE, url |-> <<>>, message |-> <<>>, class |-> "none"]

\* One call of uploadFile (kind "upload") or of savePdfLocally (kind "save"):
\* the file, where the call stands (pc), and what it did.
NewJob(phase, idx, name, kind, pc) ==
    [phase |-> phase, idx |-> idx, name |-> name, kind |-> kind, pc |-> pc,
     result |-> NoResult, before |-> <<>>, after |-> <<>>, stored |-> <<>>]

\* uploadFile up to its first await: the placeholder goes in, upload() is
\* called and waits for file.arrayBuffer().
uploadFileStart(w, t, phase, idx, name) ==
    LET w1 == replaceSelection(w, placeholderOf(name))
    IN [w1 EXCEPT !.tasks[t].jobs = Append(@, NewJob(phase, idx, name, "upload", "reading"))]

\* savePdfLocally up to its first await: it waits for file.arrayBuffer().
savePdfLocallyStart(w, t, idx, name) ==
    [w EXCEPT !.tasks[t].jobs = Append(@, NewJob("pdfs", idx, name, "save", "save_reading"))]

\* Whether the loop of uploadFiles awaits each uploadFile it calls.
uploadFilesAwaits == TRUE

\* The loop over the pdfs calling uploadFile and savePdfLocally without await.
pdfLoopFloats == FALSE

\* Whether the loop over the pdfs awaits the uploadFile or savePdfLocally it calls.
pdfLoopAwaits == TRUE

\* The loop waits for the job it has just started.
awaitLastJob(w, t) ==
    [w EXCEPT !.tasks[t].pc = "awaiting", !.tasks[t].waitingFor = Len(w.tasks[t].jobs)]

\* The pdf the loop stands at is uploaded or saved locally.
dispatchPdf(w, t, shouldUpload) ==
    LET task == w.tasks[t]
    IN IF shouldUpload
       THEN uploadFileStart(w, t, "pdfs", task.j, task.pdfs[task.j])
       ELSE savePdfLocallyStart(w, t, task.j, task.pdfs[task.j])

\* The async function of handleFiles, run from where task t stands to its
\* next await that has to wait: the images by uploadFiles, then the pdfs.
RECURSIVE run(_, _, _)
run(w, t, s) ==
    LET task == w.tasks[t]
    IN IF task.phase = "images" /\ task.i < Len(task.images)
       THEN LET w1 == uploadFileStart([w EXCEPT !.tasks[t].i = task.i + 1],
                                      t, "images", task.i + 1, task.images[task.i + 1])
            IN IF uploadFilesAwaits THEN awaitLastJob(w1, t) ELSE run(w1, t, s)
       ELSE IF task.phase = "images"
       THEN run([w EXCEPT !.tasks[t].phase = "pdfs"], t, s)
       ELSE IF task.j < Len(task.pdfs)
       THEN LET w0 == [w EXCEPT !.tasks[t].j = task.j + 1]
            IN IF s.pdfHandling = "ask"
               THEN [w0 EXCEPT !.tasks[t].pc = "asking"]
               ELSE LET w1 == dispatchPdf(w0, t, s.pdfHandling = "upload")
                    IN IF pdfLoopAwaits THEN awaitLastJob(w1, t) ELSE run(w1, t, s)
       ELSE [w EXCEPT !.tasks[t].pc = "done"]

\* askPdfUpload() has resolved to shouldUpload.
afterAsk(w, t, s, shouldUpload) ==
    LET w1 == dispatchPdf([w EXCEPT !.tasks[t].pc = "running"], t, shouldUpload)
    IN IF pdfLoopAwaits THEN awaitLastJob(w1, t) ELSE run(w1, t, s)

\* Job k of task t has settled: the loop that awaits it goes on, or, when the
\* job threw, the async function is rejected and nothing of it runs again.
settled(w, t, k, s, threw) ==
    IF w.tasks[t].pc = "awaiting" /\ w.tasks[t].waitingFor = k
    THEN IF threw
         THEN [w EXCEPT !.tasks[t].pc = "rejected", !.tasks[t].waitingFor = 0]
         ELSE run([w EXCEPT !.tasks[t].pc = "running", !.tasks[t].waitingFor = 0], t, s)
    ELSE w

\* uploadFile calling upload() again when it has thrown.
uploadFileRetries(w, t, k, result, home) ==
    [w EXCEPT !.tasks[t].jobs[k].pc = IF result.ok THEN "success" ELSE "reading",
              !.tasks[t].jobs[k].result = result]

\* uploadFile from the return or throw of upload() to its end.
uploadFileFinish(w, t, k, result, home) ==
    LET job == w.tasks[t].jobs[k]
        placeholder == placeholderOf(job.name)
        w1 == IF result.ok THEN w
              ELSE [w EXCEPT !.notices =
                        Append(@, [by |-> <<t, k>>, text |-> noticeOf(result.message)])]
        content == w1.doc
        newContent == IF result.ok
                      THEN replace(content, placeholder, markdownOf(job.name, result.url))
                      ELSE replace(content, placeholder, <<>>)
        w2 == setValue(w1, newContent, home)
    IN [w2 EXCEPT !.tasks[t].jobs[k] =
            [job EXCEPT !.pc = IF result.ok THEN "success" ELSE "failure",
                        !.result = result, !.before = content, !.after = newContent]]

\* suppress without the call of stopPropagation().
suppressDefaultOnly(e) == [e EXCEPT !.defaultPrevented = TRUE]

\* preventDefault() and stopPropagation() on the native event.
suppress(e) == [e EXCEPT !.defaultPrevented = TRUE, !.propagationStopped = TRUE]

\* NewTask with the pdfs taken before the images.
NewTaskPdfsFirst(ev, images, pdfs) ==
    [ev |-> ev, images |-> images, pdfs |-> pdfs, phase |-> "pdfs", i |-> 0, j |-> 0,
     pc |-> "running", waitingFor |-> 0, jobs |-> <<>>]

NewTask(ev, images, pdfs) ==
    [ev |-> ev, images |-> images, pdfs |-> pdfs, phase |-> "images", i |-> 0, j |-> 0,
     pc |-> "running", waitingFor |-> 0, jobs |-> <<>>]

\* The native event as it reaches the handler: its number n, whether it has a
\* file list and the files of it, whether a Markdown view is active and the
\* PDF handling set at that moment, and the task started for it (0: none).
NewEvent(n, present, files, view, s) ==
    [n |-> n, present |-> present, files |-> files, view |-> view,
     pdfHandling |-> s.pdfHandling,
     defaultPrevented |-> FALSE, propagationStopped |-> FALSE, task |-> 0]

Install(w) ==
    /\ doc' = w.doc
    /\ caret' = w.caret
    /\ tasks' = w.tasks
    /\ notices' = w.notices
    /\ requests' = w.requests
    /\ vault' = w.vault

\* handleFiles(evt, fileList): present is whether the event has a file list
\* at all, view whether a Markdown view is active.
handleFiles(present, files, view) ==
    LET e == NewEvent(evt.n + 1, present, files, view, settings)
        keep(name) == shouldIntercept(name, settings)
        intercepted == SelectSeq(files, keep)
        images == SelectSeq(intercepted, isImageFile)
        pdfs == SelectSeq(intercepted, isPdfFile)
        t == Len(tasks) + 1
    IN /\ evt.n < MaxEvents
       /\ dropped + Len(files) <= MaxFiles
       /\ dropped' = dropped + Len(files)
       /\ IF ~present \/ Len(files) = 0 \/ Len(intercepted) = 0 \/ ~view
          THEN /\ evt' = e
               /\ UNCHANGED <<doc, caret, tasks, notices, requests, vault>>
          ELSE /\ evt' = [suppress(e) EXCEPT !.task = t]
               /\ Install(run([World EXCEPT !.tasks =
                                  Append(tasks, NewTask(e.n, images, pdfs))],
                              t, settings))
       /\ UNCHANGED <<settings, edits, call>>

dropHandler ==
    \E present \in BOOLEAN, view \in BOOLEAN :
        \E files \in (IF present THEN Batches ELSE {<<>>}) :
            handleFiles(present, files, view)

pasteHandler ==
    \E present \in BOOLEAN, view \in BOOLEAN :
        \E files \in (IF present THEN Batches ELSE {<<>>}) :
            handleFiles(present, files, view)

\* resolve with every call settling the promise anew.
resolveAgain(promise, value) == value

\* A promise is settled by the first resolve() only.
resolve(promise, value) == IF promise = "pending" THEN value ELSE promise

\* PdfUploadModal: what the promise of askPdfUpload() holds after a click on
\* "Upload to API" (resolve(true), then close() runs onClose), after a click
\* on "Save locally", and after the modal is closed without a choice.
\* onClose resolving to true.
onCloseUploads(promise) == resolve(promise, "true")

onClose(promise) == resolve(promise, "false")
clickUploadToApi(promise) == onClose(resolve(promise, "true"))
clickSaveLocally(promise) == onClose(resolve(promise, "false"))

Asking(t) == t \in 1..Len(tasks) /\ tasks[t].pc = "asking"

AskResolves(t, promise) ==
    /\ Asking(t)
    /\ Install(afterAsk(World, t, settings, promise = "true"))
    /\ UNCHANGED <<settings, evt, dropped, edits, call>>

ClickUploadToApi == \E t \in 1..Len(tasks) : AskResolves(t, clickUploadToApi("pending"))

ClickSaveLocally == \E t \in 1..Len(tasks) : AskResolves(t, clickSaveLocally("pending"))

CloseModal == \E t \in 1..Len(tasks) : AskResolves(t, onClose("pending"))

JobAt(t, k, pc) ==
    /\ t \in 1..Len(tasks)
    /\ k \in 1..Len(tasks[t].jobs)
    /\ tasks[t].jobs[k].pc = pc

\* upload(): file.arrayBuffer() has settled.  Read, the request is built and
\* requestUrl is called; not read, upload() throws into uploadFile's catch.
ArrayBufferReturns ==
    \E t \in 1..Len(tasks) : \E k \in 1..Len(tasks[t].jobs) : \E ok, home \in BOOLEAN :
        /\ JobAt(t, k, "reading")
        /\ IF ok
           THEN Install([World EXCEPT
                    !.tasks[t].jobs[k].pc = "posting",
                    !.requests = Append(@, [by |-> <<t, k>>, name |-> tasks[t].jobs[k].name])])
           ELSE Install(settled(
                    uploadFileFinish(World, t, k, Throw(<<"NotReadableError">>, "read"), home),
                    t, k, settings, FALSE))
        /\ UNCHANGED <<settings, evt, dropped, edits, call>>

\* upload(): requestUrl has settled with answer r; uploadFile substitutes the
\* placeholder and returns.
RequestUrlReturns ==
    \E t \in 1..Len(tasks) : \E k \in 1..Len(tasks[t].jobs) :
      \E r \in 1..Len(Responses) : \E home \in BOOLEAN :
        /\ JobAt(t, k, "posting")
        /\ Install(settled(
               uploadFileFinish(World, t, k, upload(Responses[r], settings), home),
               t, k, settings, FALSE))
        /\ UNCHANGED <<settings, evt, dropped, edits, call>>

\* A host promise awaited by savePdfLocally has rejected: savePdfLocally throws.
savePdfLocallyThrows(w, t, k) ==
    settled([w EXCEPT !.tasks[t].jobs[k].pc = "threw"], t, k, settings, TRUE)

\* savePdfLocally: file.arrayBuffer() has settled.
SaveArrayBufferReturns ==
    \E t \in 1..Len(tasks) : \E k \in 1..Len(tasks[t].jobs) : \E ok \in BOOLEAN :
        /\ JobAt(t, k, "save_reading")
        /\ IF ok
           THEN Install([World EXCEPT !.tasks[t].jobs[k].pc = "save_path"])
           ELSE Install(savePdfLocallyThrows(World, t, k))
        /\ UNCHANGED <<settings, evt, dropped, edits, call>>

\* savePdfLocally: fileManager.getAvailablePathForAttachment() has settled.
GetAvailablePathReturns ==
    \E t \in 1..Len(tasks) : \E k \in 1..Len(tasks[t].jobs) : \E ok \in BOOLEAN :
        /\ JobAt(t, k, "save_path")
        /\ IF ok
           THEN \E path \in StoredNames(tasks[t].jobs[k].name) :
                    Install([World EXCEPT !.tasks[t].jobs[k].pc = "save_writing",
                                          !.tasks[t].jobs[k].stored = path])
           ELSE Install(savePdfLocallyThrows(World, t, k))
        /\ UNCHANGED <<settings, evt, dropped, edits, call>>

\* savePdfLocally: vault.createBinary() has settled; the embed of the created
\* file goes in at the cursor and savePdfLocally returns.
CreateBinaryReturns ==
    \E t \in 1..Len(tasks) : \E k \in 1..Len(tasks[t].jobs) : \E ok \in BOOLEAN :
        /\ JobAt(t, k, "save_writing")
        /\ IF ok
           THEN LET job == tasks[t].jobs[k]
                    w1 == [World EXCEPT !.vault = Append(@, [by |-> <<t, k>>, name |-> job.stored])]
                    w2 == replaceSelection(w1, embedOf(job.stored))
                IN Install(settled([w2 EXCEPT !.tasks[t].jobs[k].pc = "saved"],
                                   t, k, settings, FALSE))
           ELSE Install(savePdfLocallyThrows(World, t, k))
        /\ UNCHANGED <<settings, evt, dropped, edits, call>>

\* The "PDF handling" dropdown of the settings tab.
SetPdfHandling ==
    \E value \in PdfHandlings :
        /\ value # settings.pdfHandling
        /\ settings' = [settings EXCEPT !.pdfHandling = value]
        /\ UNCHANGED <<doc, caret, evt, dropped, tasks, notices, requests, vault, edits, call>>

\* The user presses Backspace: the symbol before the cursor goes.
UserBackspace ==
    /\ edits < MaxEdits
    /\ caret > 0
    /\ doc' = SubSeq(doc, 1, caret - 1) \o SubSeq(doc, caret + 1, Len(doc))
    /\ caret' = caret - 1
    /\ edits' = edits + 1
    /\ UNCHANGED <<settings, evt, dropped, tasks, notices, requests, vault, call>>

\* The user types a character at the cursor.
UserTypes ==
    /\ edits < MaxEdits
    /\ doc' = SubSeq(doc, 1, caret) \o <<"x">> \o SubSeq(doc, caret + 1, Len(doc))
    /\ caret' = caret + 1
    /\ edits' = edits + 1
    /\ UNCHANGED <<settings, evt, dropped, tasks, notices, requests, vault, call>>

\* No function is taken by itself.
NoCall == [fn |-> "none"]

\* The plugin is loaded: the saved settings over DEFAULT_SETTINGS, an empty
\* note, nothing dropped yet.
Init ==
    /\ settings \in [pdfHandling : PdfHandlings, imageUrlPath : {UrlKey}]
    /\ doc = <<>>
    /\ caret = 0
    /\ evt = NewEvent(0, FALSE, <<>>, FALSE, settings)
    /\ dropped = 0
    /\ tasks = <<>>
    /\ notices = <<>>
    /\ requests = <<>>
    /\ vault = <<>>
    /\ edits = 0
    /\ call = NoCall

Next ==
    \/ dropHandler
    \/ pasteHandler
    \/ ClickUploadToApi
    \/ ClickSaveLocally
    \/ CloseModal
    \/ ArrayBufferReturns
    \/ RequestUrlReturns
    \/ SaveArrayBufferReturns
    \/ GetAvailablePathReturns
    \/ CreateBinaryReturns
    \/ SetPdfHandling
    \/ UserBackspace
    \/ UserTypes

Spec == Init /\ [][Next]_vars

\* The plugin with the host answering every promise an upload awaits: the
\* read of the file and the request.  The settings are left alone.
FairNext ==
    \/ dropHandler
    \/ pasteHandler
    \/ ClickUploadToApi
    \/ ClickSaveLocally
    \/ CloseModal
    \/ ArrayBufferReturns
    \/ RequestUrlReturns
    \/ SaveArrayBufferReturns
    \/ GetAvailablePathReturns
    \/ CreateBinaryReturns
    \/ UserBackspace
    \/ UserTypes

\* ArrayBufferReturns can be taken: some upload waits for file.arrayBuffer().
ReadPending == \E t \in 1..Len(tasks) : \E k \in 1..Len(tasks[t].jobs) : JobAt(t, k, "reading")

\* RequestUrlReturns can be taken: some upload waits for requestUrl().
PostPending == \E t \in 1..Len(tasks) : \E k \in 1..Len(tasks[t].jobs) : JobAt(t, k, "posting")

\* Weak fairness of ArrayBufferReturns and of RequestUrlReturns, written out:
\* WF_vars(A) is []<>(~ENABLED <<A>>_vars) \/ []<><<A>>_vars, and each of the
\* two actions is enabled, and changes vars, exactly when a job stands at the
\* await it answers.
FairSpec ==
    /\ Init
    /\ [][FairNext]_vars
    /\ ([]<>(~ReadPending) \/ []<><<ArrayBufferReturns>>_vars)
    /\ ([]<>(~PostPending) \/ []<><<RequestUrlReturns>>_vars)

----------------------------------------------------------------------------
(* The functions taken by themselves: one call each, the arguments drawn in *)
(* the initial state.                                                       *)

\* Nothing has been dropped or pasted.
Quiet ==
    /\ doc = <<>>
    /\ caret = 0
    /\ evt = NewEvent(0, FALSE, <<>>, FALSE, settings)
    /\ dropped = 0
    /\ tasks = <<>>
    /\ notices = <<>>
    /\ requests = <<>>
    /\ vault = <<>>
    /\ edits = 0

Untouched == UNCHANGED <<settings, doc, caret, evt, dropped, tasks, notices, requests, vault, edits>>

DefaultSettings == [pdfHandling |-> "default", imageUrlPath |-> <<>>]

(* Classifier *)

MaxStem == 2        \* characters of a file name before its ending

toUpperCase(text) ==
    [i \in 1..Len(text) |->
        IF \E k \in 1..Len(LowerChars) : LowerChars[k] = text[i]
        THEN UpperChars[CHOOSE k \in 1..Len(LowerChars) : LowerChars[k] = text[i]]
        ELSE text[i]]

Stems == UNION {[1..n -> {"n", "."}] : n \in 0..MaxStem}

Endings ==
    IMAGE_EXTENSIONS
    \cup {toUpperCase(e) : e \in IMAGE_EXTENSIONS}
    \cup { <<"p", "d", "f">>, <<"P", "D", "F">>, <<"P", "d", "f">>, <<"P", "n", "g">>,
           <<"t", "x", "t">>, <<"p", "n", "g", "x">>, <<>> }

\* The file names the classifier is run on: "png", "n.PNG", ".pdf", "n.",
\* "nn", "n.txt", ".npngx", ...
Names == {stem \o ending : stem \in Stems, ending \in Endings}

ClassifierInit ==
    /\ settings = DefaultSettings
    /\ Quiet
    /\ call \in {[fn |-> "classify", name |-> name, done |-> FALSE,
                  image |-> FALSE, pdf |-> FALSE] : name \in Names}

\* isImageFile(file) and isPdfFile(file) of one file.
Classify ==
    /\ ~call.done
    /\ call' = [call EXCEPT !.done = TRUE,
                            !.image = isImageFile(call.name),
                            !.pdf = isPdfFile(call.name)]
    /\ Untouched

SpecClassifier == ClassifierInit /\ [][Classify]_vars

(* Response Extractor *)

DataLink == <<"d", "a", "t", "a", ".", "l", "i", "n", "k">>

\* The values of "Image URL path" the functions are run with:
\* "", "url", "data.link", "data", "a", "a.b", "a.0", "m".
Paths ==
    { <<>>, UrlKey, DataLink, <<"d", "a", "t", "a">>, <<"a">>, <<"a", ".", "b">>,
      <<"a", ".", "0">>, <<"m">> }

HX == <<"h", "/", "x">>

\* The decoded bodies: {"url":"h/x"}, {"url":""}, {"data":{"link":"h/x"}},
\* {"a":1}, {"a":["z"]}, {"a":null}, {"":"z"}, "z", null, {}, {"a":{"b":"z"}}.
Bodies ==
    << JObject(<<[k |-> UrlKey, v |-> JString(HX)]>>),
       JObject(<<[k |-> UrlKey, v |-> JString(<<>>)]>>),
       JObject(<<[k |-> <<"d", "a", "t", "a">>,
                  v |-> JObject(<<[k |-> <<"l", "i", "n", "k">>, v |-> JString(HX)]>>)]>>),
       JObject(<<[k |-> <<"a">>, v |-> JNumber(<<"1">>)]>>),
       JObject(<<[k |-> <<"a">>, v |-> JArray(<<JString(<<"z">>)>>)]>>),
       JObject(<<[k |-> <<"a">>, v |-> JNull]>>),
       JObject(<<[k |-> <<>>, v |-> JString(<<"z">>)]>>),
       JString(<<"z">>),
       JNull,
       JObject(<<>>),
       JObject(<<[k |-> <<"a">>,
                  v |-> JObject(<<[k |-> <<"b">>, v |-> JString(<<"z">>)]>>)]>>) >>

ExtractorInit ==
    /\ settings \in [pdfHandling : {"default"}, imageUrlPath : Paths]
    /\ Quiet
    /\ call \in {[fn |-> "getByPath", body |-> b, done |-> FALSE, found |-> JUndefined] :
                    b \in 1..Len(Bodies)}

\* getByPath(data, this.settings.imageUrlPath) of one body.
Extract ==
    /\ ~call.done
    /\ call' = [call EXCEPT !.done = TRUE,
                            !.found = getByPath(Bodies[call.body], settings.imageUrlPath)]
    /\ Untouched

SpecExtractor == ExtractorInit /\ [][Extract]_vars

(* Upload Client: the answer *)

Statuses == {199, 200, 201, 299, 300, 404, 500}

\* requestUrl({url, method: "POST", headers, body}) against a server that
\* answers with x.status and body x.body (0: not JSON).  The call sets no
\* `throw` option: on a status of 400 or more the host rejects with its own
\* error (x.throws) or returns the response.
requestUrl(x) ==
    IF x.throws /\ x.status >= 400
    THEN Rejected(<<"Request failed, status ", ToString(x.status)>>)
    ELSE IF x.body = 0 THEN RespondedNoJson(x.status, <<"Unexpected token">>)
    ELSE Responded(x.status, Bodies[x.body])

UploadInit ==
    /\ settings \in [pdfHandling : {"default"}, imageUrlPath : Paths]
    /\ Quiet
    /\ call \in {[fn |-> "upload", status |-> st, throws |-> th, body |-> b,
                  done |-> FALSE, result |-> NoResult] :
                    st \in Statuses, th \in BOOLEAN, b \in 0..Len(Bodies)}

\* upload(file) from the answer of requestUrl to its return or throw.
UploadAnswers ==
    /\ ~call.done
    /\ call' = [call EXCEPT !.done = TRUE, !.result = upload(requestUrl(call), settings)]
    /\ Untouched

SpecUpload == UploadInit /\ [][UploadAnswers]_vars

(* Upload Client: the headers *)

MaxHeaders == 2     \* entries of the "HTTP headers" setting

\* The header names the user has typed: "", " ", "X", " X ", "Content-Type",
\* "content-type".
HeaderKeys == { <<>>, <<" ">>, <<"X">>, <<" ", "X", " ">>, ContentType, toLowerCase(ContentType) }

HeaderValues == { <<"1">>, <<"2">> }

HeaderEntries == [key : HeaderKeys, value : HeaderValues]

HeaderLists == UNION {[1..n -> HeaderEntries] : n \in 0..MaxHeaders}

HeadersInit ==
    /\ settings \in [pdfHandling : {"default"}, imageUrlPath : {UrlKey}, headers : HeaderLists]
    /\ Quiet
    /\ call = [fn |-> "headers", now |-> "lx0", done |-> FALSE, headers |-> <<>>]

\* upload(file) from the read of the file to the call of requestUrl: the
\* headers of the request.
BuildHeaders ==
    /\ ~call.done
    /\ call' = [call EXCEPT !.done = TRUE,
                            !.headers = requestHeaders(settings.headers, boundaryOf(call.now))]
    /\ Untouched

SpecHeaders == HeadersInit /\ [][BuildHeaders]_vars

----------------------------------------------------------------------------
(* What the claims speak of *)

Occurs(text, pat) == IndexOf(text, pat) # 0

\* The first occurrence of pattern replaced by text, every symbol of text
\* copied as it is.
ReplaceFirstVerbatim(content, pattern, text) ==
    LET p == IndexOf(content, pattern)
    IN IF p = 0 THEN content
       ELSE SubSeq(content, 1, p - 1) \o text
            \o SubSeq(content, p + Len(pattern), Len(content))

\* The interception predicate: Image, or Pdf while the PDF handling is not
\* "Save locally".
Matches(name, pdfHandling) ==
    \/ isImageFile(name)
    \/ isPdfFile(name) /\ pdfHandling # "default"

MatchingOf(e) == {k \in 1..Len(e.files) : Matches(e.files[k], e.pdfHandling)}

\* The host's default handling gets the event: nothing stopped it.
LeftToHost(e) == ~e.defaultPrevented /\ ~e.propagationStopped

Suppressed(e) == e.defaultPrevented /\ e.propagationStopped

Tasks == 1..Len(tasks)
JobsOf(t) == 1..Len(tasks[t].jobs)

Pending(job) == job.pc \in {"reading", "posting", "save_reading", "save_path", "save_writing"}
Resolved(job) == job.pc \in {"success", "failure", "saved", "threw"}
UploadPending(job) == job.pc \in {"reading", "posting"}

NoticesBy(t, k) == {n \in 1..Len(notices) : notices[n].by = <<t, k>>}

\* The text the spec puts in the place of the placeholder of a file uploaded
\* to url.
ExpectedLink(name, url) ==
    IF isImageFile(name) THEN <<"![](">> \o url \o <<")">>
    ELSE <<"[">> \o name \o <<"](">> \o url \o <<")">>

----------------------------------------------------------------------------
(* Claims *)

\* C1: a drop or paste event whose file list is absent or empty, or in which
\* no file matches the interception predicate, is left as it came: neither
\* its default action nor its propagation is stopped, no task is started for
\* it, and the text, the cursor, the tasks, the notices, the requests and the
\* vault are what they were.
C1_NoMatchNoEffect ==
    [][(evt'.n # evt.n /\ MatchingOf(evt') = {})
        => /\ LeftToHost(evt')
           /\ evt'.task = 0
           /\ UNCHANGED <<settings, doc, caret, tasks, notices, requests, vault>>]_vars

\* An event that carried a pdf while the PDF handling was "Save locally", with
\* a Markdown view active, has been dispatched and was not suppressed.
C1_Witness ==
    /\ evt.n > 0
    /\ evt.view
    /\ MatchingOf(evt) = {}
    /\ \E k \in 1..Len(evt.files) : isPdfFile(evt.files[k])
    /\ LeftToHost(evt)

\* C2 as stated: every event in which a file matches the interception
\* predicate is suppressed (default action and propagation) and has a task.
C2_SuppressedWheneverMatch ==
    (evt.n > 0 /\ MatchingOf(evt) # {}) => (Suppressed(evt) /\ evt.task # 0)

\* C2 as amended: an event in which a file matches the interception predicate
\* is suppressed (default action and propagation) when a Markdown view is
\* active, and its matching images and pdfs, in the order of the file list,
\* are those of the task started for it; when no Markdown view is active the
\* event is not suppressed and no task is started.
C2_SuppressedWhenViewActive ==
    (evt.n > 0 /\ MatchingOf(evt) # {}) =>
        IF evt.view
        THEN /\ Suppressed(evt)
             /\ evt.task \in Tasks
             /\ tasks[evt.task].ev = evt.n
             /\ tasks[evt.task].images = SelectSeq(evt.files, isImageFile)
             /\ tasks[evt.task].pdfs =
                    SelectSeq(evt.files, LAMBDA name : isPdfFile(name) /\ evt.pdfHandling # "default")
        ELSE LeftToHost(evt) /\ evt.task = 0

\* An event with an image and a pdf to upload, dispatched with a view active.
C2_Witness ==
    /\ evt.n > 0
    /\ evt.view
    /\ Cardinality(MatchingOf(evt)) = 2
    /\ \E k \in MatchingOf(evt) : isPdfFile(evt.files[k])
    /\ \E k \in MatchingOf(evt) : isImageFile(evt.files[k])
    /\ Suppressed(evt)

\* C3 as stated: a file of an event that does not match the interception
\* predicate is left to the host's default handling, whatever else the event
\* carries, and no upload or save is started for it.
C3_UnmatchedLeftToHost ==
    \A k \in 1..Len(evt.files) :
        k \notin MatchingOf(evt) =>
            /\ LeftToHost(evt)
            /\ evt.task # 0 => \A j \in JobsOf(evt.task) :
                                  tasks[evt.task].jobs[j].name # evt.files[k]

\* C4 as stated: the images of a batch are uploaded concurrently: every image
\* of the batch has its upload started (placeholder in, upload() called) by
\* the time the handler returns, none waiting for another to resolve.
C4_ImagesLaunchedTogether ==
    \A t \in Tasks : tasks[t].i = Len(tasks[t].images)

\* C5: the pdfs of a batch are handled one at a time in the order of the
\* batch: when the handling of a pdf has started (its prompt is open, or its
\* upload or local save is under way or over), every pdf before it in the
\* batch has been handled and has resolved.
C5_PdfsOneAtATime ==
    \A t \in Tasks :
        LET jobs == tasks[t].jobs
            DoneBefore(idx) ==
                \A m \in 1..(idx - 1) :
                    \E a \in JobsOf(t) :
                        jobs[a].phase = "pdfs" /\ jobs[a].idx = m /\ Resolved(jobs[a])
        IN /\ \A b \in JobsOf(t) : jobs[b].phase = "pdfs" => DoneBefore(jobs[b].idx)
           /\ tasks[t].pc = "asking" => DoneBefore(tasks[t].j)
           /\ Cardinality({b \in JobsOf(t) : jobs[b].phase = "pdfs" /\ Pending(jobs[b])}) <= 1

\* The second pdf of a batch of two is being handled, the first one uploaded.
C5_Witness ==
    \E t \in Tasks :
        /\ Len(tasks[t].pdfs) = 2
        /\ Len(tasks[t].jobs) = 2
        /\ tasks[t].jobs[1].pc \in {"success", "failure"}
        /\ Pending(tasks[t].jobs[2])

\* C6 as stated: a failure in the handling of one file of a batch leaves the
\* others to be handled: the async function of a batch does not end before
\* every intercepted file of the batch has been handled and has resolved.
C6_FailureStopsNoOther ==
    \A t \in Tasks :
        tasks[t].pc \in {"done", "rejected"} =>
            /\ tasks[t].i = Len(tasks[t].images)
            /\ tasks[t].j = Len(tasks[t].pdfs)
            /\ Len(tasks[t].jobs) = Len(tasks[t].images) + Len(tasks[t].pdfs)
            /\ \A k \in JobsOf(t) : Resolved(tasks[t].jobs[k])

\* C7 as stated: the placeholder of an upload goes in once, before the first
\* await, and one replacement takes it out when the upload resolves; so with
\* no user edit, once no upload is pending the text holds no placeholder.
C7_NoPlaceholderLeft ==
    /\ \A t \in Tasks : \A k \in JobsOf(t) :
           (tasks[t].jobs[k].kind = "upload" /\ UploadPending(tasks[t].jobs[k]) /\ edits = 0)
               => Occurs(doc, placeholderOf(tasks[t].jobs[k].name))
    /\ (edits = 0 /\ \A t \in Tasks : \A k \in JobsOf(t) : ~UploadPending(tasks[t].jobs[k]))
           => \A p \in 1..Len(doc) : doc[p] # "![Uploading "

\* C8 as stated: two uploads pending at the same time have different
\* placeholders.
C8_PlaceholdersDiffer ==
    \A t1, t2 \in Tasks : \A k1 \in JobsOf(t1) : \A k2 \in JobsOf(t2) :
        (/\ <<t1, k1>> # <<t2, k2>>
         /\ UploadPending(tasks[t1].jobs[k1])
         /\ UploadPending(tasks[t2].jobs[k2]))
            => placeholderOf(tasks[t1].jobs[k1].name) # placeholderOf(tasks[t2].jobs[k2].name)

\* C9 as stated: a successful upload puts, in the place of the first
\* occurrence of its placeholder, the link of the file to the URL, every
\* symbol of the URL and of the file name as it is.
C9_LinkVerbatim ==
    \A t \in Tasks : \A k \in JobsOf(t) :
        LET job == tasks[t].jobs[k]
        IN job.pc = "success" =>
               job.after = ReplaceFirstVerbatim(job.before, placeholderOf(job.name),
                                                ExpectedLink(job.name, job.result.url))

\* C10: a failed upload, whatever the failure, takes the first occurrence of
\* its placeholder out of the text and puts nothing in its place, creates one
\* notice, "Image upload failed: " followed by the reason, and the loop that
\* awaited the upload goes on: the failure does not reject the task.
C10_FailureCleansUp ==
    \A t \in Tasks : \A k \in JobsOf(t) :
        LET job == tasks[t].jobs[k]
        IN job.pc = "failure" =>
               /\ job.result.class \in {"read", "transport", "status", "json", "path"}
               /\ job.after = ReplaceFirstVerbatim(job.before, placeholderOf(job.name), <<>>)
               /\ Cardinality(NoticesBy(t, k)) = 1
               /\ \A n \in NoticesBy(t, k) :
                      notices[n].text = <<"Image upload failed: ">> \o job.result.message
               /\ ~(tasks[t].pc = "rejected" /\ tasks[t].waitingFor = 0 /\ k = Len(tasks[t].jobs))

\* Two uploads have failed, one on a non-2xx status and one on the path.
C10_Witness ==
    \E t1, t2 \in Tasks : \E k1 \in JobsOf(t1) : \E k2 \in JobsOf(t2) :
        /\ tasks[t1].jobs[k1].pc = "failure" /\ tasks[t1].jobs[k1].result.class = "status"
        /\ tasks[t2].jobs[k2].pc = "failure" /\ tasks[t2].jobs[k2].result.class = "path"

RequestsBy(t, k) == {n \in 1..Len(requests) : requests[n].by = <<t, k>>}

\* C14: when the prompt for a pdf is closed with neither option chosen, the
\* pdf goes the local-save way: savePdfLocally is called for it, the text is
\* left as it is (no placeholder) and no request is made; and a pdf on the
\* local-save way never has a request made for it.
C14_ClosedPromptSavesLocally ==
    /\ [][\A t \in 1..MaxEvents :
            AskResolves(t, onClose("pending")) =>
                /\ Len(tasks'[t].jobs) = Len(tasks[t].jobs) + 1
                /\ tasks'[t].jobs[Len(tasks'[t].jobs)].kind = "save"
                /\ tasks'[t].jobs[Len(tasks'[t].jobs)].name = tasks[t].pdfs[tasks[t].j]
                /\ doc' = doc
                /\ requests' = requests]_vars
    /\ [](\A t \in Tasks : \A k \in JobsOf(t) :
              tasks[t].jobs[k].kind = "save" =>
                  /\ RequestsBy(t, k) = {}
                  /\ tasks[t].jobs[k].pc = "saved" =>
                         \E n \in 1..Len(vault) : vault[n].by = <<t, k>>)

\* A pdf dropped while the PDF handling is "Ask each time" has been saved
\* locally: it is in the vault, no request was made, no placeholder is there.
C14_Witness ==
    \E t \in Tasks : \E k \in JobsOf(t) :
        /\ evt.task = t
        /\ evt.pdfHandling = "ask"
        /\ settings.pdfHandling = "ask"
        /\ tasks[t].jobs[k].kind = "save"
        /\ tasks[t].jobs[k].pc = "saved"
        /\ requests = <<>>
        /\ \E n \in 1..Len(vault) : vault[n].by = <<t, k>>
        /\ \A p \in 1..Len(doc) : doc[p] # "![Uploading "

C16_OnlyFirstOccurrence ==
    \A t \in Tasks : \A k \in JobsOf(t) :
        LET job == tasks[t].jobs[k]
            p == IndexOf(job.before, placeholderOf(job.name))
            rest == Len(job.before) - p - Len(placeholderOf(job.name)) + 1
        IN job.pc \in {"success", "failure"} =>
               /\ job.pc = "success" => NoticesBy(t, k) = {}
               /\ IF p = 0 THEN job.after = job.before
                  ELSE /\ Len(job.after) >= p - 1 + rest
                       /\ SubSeq(job.after, 1, p - 1) = SubSeq(job.before, 1, p - 1)
                       /\ SubSeq(job.after, Len(job.after) - rest + 1, Len(job.after))
                              = SubSeq(job.before, Len(job.before) - rest + 1, Len(job.before))

\* The user has altered a placeholder and its upload has resolved since,
\* leaving the text as it was.
C16_Witness ==
    \E t \in Tasks : \E k \in JobsOf(t) :
        /\ edits > 0
        /\ tasks[t].jobs[k].pc = "success"
        /\ ~Occurs(tasks[t].jobs[k].before, placeholderOf(tasks[t].jobs[k].name))
        /\ tasks[t].jobs[k].after = tasks[t].jobs[k].before
        /\ doc = tasks[t].jobs[k].after

----------------------------------------------------------------------------
(* Claims on the functions taken by themselves *)

Is2xx(status) == status >= 200 /\ status <= 299

StatusReason(status) == <<"Server responded with status ", ToString(status)>>

PathReason(path) ==
    <<"Could not extract URL from response using path \"">> \o path \o <<"\"">>

\* What the Response Extractor yields of the value reached: the value when
\* it is a string, not-found (JUndefined) otherwise.
StringFound(v) == IF v.t = "string" THEN v ELSE JUndefined

\* The member of v with the key seg that counts (the last one), 0 when v has none.
MemberAt(v, seg) ==
    LET hits == {i \in 1..Len(v.kids) : v.kids[i].k = seg}
    IN IF hits = {} THEN 0 ELSE CHOOSE i \in hits : \A k \in hits : k <= i

\* The walk of spec 4.2: every value on the way has to be a mapping.
RECURSIVE WalkMappings(_, _)
WalkMappings(v, segs) ==
    IF segs = <<>> THEN StringFound(v)
    ELSE IF v.t # "object" \/ MemberAt(v, Head(segs)) = 0 THEN JUndefined
    ELSE WalkMappings(v.kids[MemberAt(v, Head(segs))].v, Tail(segs))

\* The walk that also steps into an array by the decimal index of an element.
RECURSIVE WalkContainers(_, _)
WalkContainers(v, segs) ==
    IF segs = <<>> THEN StringFound(v)
    ELSE IF v.t \notin {"object", "array"} \/ MemberAt(v, Head(segs)) = 0 THEN JUndefined
    ELSE WalkContainers(v.kids[MemberAt(v, Head(segs))].v, Tail(segs))

\* The segments of a path that is not empty.
RECURSIVE Segments(_)
Segments(path) ==
    LET dots == {i \in 1..Len(path) : path[i] = "."}
    IN IF dots = {} THEN <<path>>
       ELSE LET d == CHOOSE i \in dots : \A k \in dots : i <= k
            IN <<SubSeq(path, 1, d - 1)>> \o Segments(SubSeq(path, d + 1, Len(path)))

\* C11 as stated: every HTTP status outside [200,300) the server answers with
\* makes upload() fail with the reason "Server responded with status <code>",
\* and no status inside [200,300) (201 is one) gives that reason.
C11_StatusReasonExact ==
    call.done =>
        IF Is2xx(call.status)
        THEN call.result.message # StatusReason(call.status)
        ELSE ~call.result.ok /\ call.result.message = StatusReason(call.status)

\* C12 as stated: on a 2xx response whose body decodes, upload() returns s
\* exactly when the extractor finds a string s at the configured path, and
\* otherwise fails with the reason that names the path.
C12_SuccessIffString ==
    (call.done /\ Is2xx(call.status) /\ call.body # 0) =>
        LET found == getByPath(Bodies[call.body], settings.imageUrlPath)
        IN IF found.t = "string"
           THEN call.result.ok /\ call.result.url = found.s
           ELSE ~call.result.ok /\ call.result.message = PathReason(settings.imageUrlPath)

\* C12 as amended: on a 2xx response whose body decodes, upload() returns s
\* exactly when the extractor finds a string s that is not empty at the
\* configured path; for the empty string, a value that is no string or a path
\* that is absent it fails with the reason that names the path; and on a 2xx
\* response whose body does not decode it fails with the decoder's error.
C12_SuccessIffNonEmptyString ==
    (call.done /\ Is2xx(call.status)) =>
        IF call.body = 0
        THEN ~call.result.ok /\ call.result.message # PathReason(settings.imageUrlPath)
        ELSE LET found == getByPath(Bodies[call.body], settings.imageUrlPath)
             IN IF found.t = "string" /\ found.s # <<>>
                THEN call.result.ok /\ call.result.url = found.s
                ELSE ~call.result.ok /\ call.result.message = PathReason(settings.imageUrlPath)

\* A 201 response {"data":{"link":"h/x"}} with the path "data.link" has given
\* "h/x".
C12_Witness ==
    /\ call.done
    /\ call.status = 201
    /\ settings.imageUrlPath = DataLink
    /\ call.result.ok
    /\ call.result.url = HX

\* The category of spec 4.1: the name split on its last ".", no "." giving
\* the empty extension.
Category(name) ==
    LET dots == {i \in 1..Len(name) : name[i] = "."}
        last == CHOOSE i \in dots : \A k \in dots : k <= i
        ext == IF dots = {} THEN <<>> ELSE toLowerCase(SubSeq(name, last + 1, Len(name)))
    IN IF ext \in IMAGE_EXTENSIONS THEN "Image"
       ELSE IF ext = <<"p", "d", "f">> THEN "Pdf"
       ELSE "Other"

\* C13 as stated: a name that ends in "." and one of the eight image
\* extensions, in any letter case, is Image; one that ends in ".pdf", in any
\* case, is Pdf; a name with no "." at all or with another extension is Other.
C13_ClassifiedByExtension ==
    call.done =>
        /\ call.image <=> Category(call.name) = "Image"
        /\ call.pdf <=> Category(call.name) = "Pdf"

\* C17 as stated: with the empty path the extractor takes the body itself for
\* the root and looks up no key: it yields the body when that is a string and
\* not-found otherwise.
C17_EmptyPathIsRoot ==
    (call.done /\ settings.imageUrlPath = <<>>) =>
        StringFound(call.found) = StringFound(Bodies[call.body])

\* C17 as amended: with the empty path the extractor looks up the one key ""
\* (the empty string) in the body: it yields the string that a mapping holds
\* under the key "", and not-found for every other body, a string body included.
C17_EmptyPathIsEmptyKey ==
    (call.done /\ settings.imageUrlPath = <<>>) =>
        StringFound(call.found) = WalkMappings(Bodies[call.body], << <<>> >>)

\* The body {"":"z"} has been searched with the empty path and "z" was found.
C17_Witness ==
    /\ call.done
    /\ settings.imageUrlPath = <<>>
    /\ Bodies[call.body].t = "object"
    /\ call.found = JString(<<"z">>)

\* C18 as stated: the extractor walks the segments of the path in order and
\* yields not-found when the value reached before a segment is no mapping
\* (null, a scalar, an array) or has no such key; it yields the string found
\* by exact key matches along the whole path.
C18_MappingsOnly ==
    (call.done /\ settings.imageUrlPath # <<>>) =>
        StringFound(call.found) = WalkMappings(Bodies[call.body], Segments(settings.imageUrlPath))

\* C18 as amended: the extractor walks the segments of the path in order and
\* yields not-found when the value reached before a segment is null or a
\* scalar or has no such key; an array is walked like a mapping, a segment
\* that is the decimal index of an element selecting that element; it yields
\* the string found by exact key or index matches along the whole path.
C18_ObjectsAndArrays ==
    (call.done /\ settings.imageUrlPath # <<>>) =>
        StringFound(call.found) = WalkContainers(Bodies[call.body], Segments(settings.imageUrlPath))

\* The body {"a":["z"]} has been searched with the path "a.0" and "z" was found.
C18_Witness ==
    /\ call.done
    /\ settings.imageUrlPath = <<"a", ".", "0">>
    /\ call.found = JString(<<"z">>)

SentAs(names) == {i \in 1..Len(call.headers) : call.headers[i].key \in names}

\* The entries of the setting whose trimmed key is key.
EntriesOf(key) ==
    {i \in 1..Len(settings.headers) : trim(settings.headers[i].key) = key}

IsContentType(key) == toLowerCase(key) = toLowerCase(ContentType)

\* C19 as stated: the headers sent are: for every key of the setting that is
\* not empty when trimmed, the value of the last entry with that key, nothing
\* for the entries whose trimmed key is empty; and one Content-Type header,
\* the multipart value with the boundary, whatever entry the user has made
\* for Content-Type, in any spelling.
C19_HeadersSent ==
    call.done =>
        /\ \A i \in 1..Len(call.headers) : call.headers[i].key # <<>>
        /\ \A i \in 1..Len(call.headers) :
               ~IsContentType(call.headers[i].key) =>
                   /\ EntriesOf(call.headers[i].key) # {}
                   /\ \E e \in EntriesOf(call.headers[i].key) :
                          /\ \A k \in EntriesOf(call.headers[i].key) : k <= e
                          /\ call.headers[i].value = settings.headers[e].value
        /\ \A e \in 1..Len(settings.headers) :
               (trim(settings.headers[e].key) # <<>> /\ ~IsContentType(settings.headers[e].key))
                   => SentAs({trim(settings.headers[e].key)}) # {}
        /\ Cardinality({i \in 1..Len(call.headers) : IsContentType(call.headers[i].key)}) = 1
        /\ \A i \in 1..Len(call.headers) :
               IsContentType(call.headers[i].key) =>
                   call.headers[i].value = <<"multipart/form-data; boundary=", "----ObsidianUploader", call.now>>

----------------------------------------------------------------------------
(* Claims on the plugin with the host answering *)

IsUploadAt(t, k, pcs) ==
    /\ t \in Tasks
    /\ k \in JobsOf(t)
    /\ tasks[t].jobs[k].kind = "upload"
    /\ tasks[t].jobs[k].pc \in pcs

\* C20: an upload that has started makes at most one request, nothing takes
\* it back or changes its file, its result once reached (success or failure)
\* stays as it is, and, the host answering the read of the file and the
\* request, it reaches that result.
C20_UploadRunsOnceToItsEnd ==
    /\ [](\A t \in Tasks : \A k \in JobsOf(t) : Cardinality(RequestsBy(t, k)) <= 1)
    /\ [][\A t \in Tasks : \A k \in JobsOf(t) :
            tasks[t].jobs[k].kind = "upload" =>
                /\ t <= Len(tasks') /\ k <= Len(tasks'[t].jobs)
                /\ tasks'[t].jobs[k].kind = "upload"
                /\ tasks'[t].jobs[k].name = tasks[t].jobs[k].name
                /\ tasks[t].jobs[k].pc \in {"success", "failure"} =>
                       tasks'[t].jobs[k] = tasks[t].jobs[k]]_vars
    /\ \A t \in 1..MaxEvents : \A k \in 1..MaxFiles :
           IsUploadAt(t, k, {"reading", "posting"}) ~> IsUploadAt(t, k, {"success", "failure"})

\* An upload has failed after its request: one request was made for it.
C20_Witness ==
    \E t \in Tasks : \E k \in JobsOf(t) :
        /\ IsUploadAt(t, k, {"failure"})
        /\ Cardinality(RequestsBy(t, k)) = 1
        /\ tasks[t].jobs[k].result.class = "status"

----------------------------------------------------------------------------
(* Claims on the shared text and on the prompt *)

\* new is old with text put in at one place, or old itself.
InsertedInto(old, new) ==
    /\ Len(new) >= Len(old)
    /\ \E c \in 0..Len(old) :
           /\ SubSeq(new, 1, c) = SubSeq(old, 1, c)
           /\ SubSeq(new, Len(new) - (Len(old) - c) + 1, Len(new)) = SubSeq(old, c + 1, Len(old))

\* Upload k of task t resolves in this step.
ResolvesNow(t, k) ==
    /\ IsUploadAt(t, k, {"reading", "posting"})
    /\ tasks'[t].jobs[k].pc \in {"success", "failure"}

\* C21: insertion and substitution are atomic: the text a substitution reads
\* is the text of the editor at that very step, what it writes is that text
\* with at most the first occurrence of its placeholder changed, and every
\* step of the plugin leaves in the editor the text that was there, whoever
\* wrote it, with at most that occurrence changed and new text put in at the
\* cursor.
C21_EditsAreAtomic ==
    [][/\ \A t \in 1..MaxEvents : \A k \in 1..MaxFiles :
              ResolvesNow(t, k) =>
                  LET job == tasks'[t].jobs[k]
                      p == IndexOf(doc, placeholderOf(job.name))
                      rest == Len(doc) - p - Len(placeholderOf(job.name)) + 1
                  IN /\ job.before = doc
                     /\ IF p = 0 THEN job.after = doc
                        ELSE /\ Len(job.after) >= p - 1 + rest
                             /\ SubSeq(job.after, 1, p - 1) = SubSeq(doc, 1, p - 1)
                             /\ SubSeq(job.after, Len(job.after) - rest + 1, Len(job.after))
                                    = SubSeq(doc, Len(doc) - rest + 1, Len(doc))
                     /\ InsertedInto(job.after, doc')
       /\ (edits' = edits /\ \A t \in 1..MaxEvents : \A k \in 1..MaxFiles : ~ResolvesNow(t, k))
              => InsertedInto(doc, doc')]_vars

\* An image and a pdf of two events were uploading at the same time and the
\* user typed meanwhile; the image has resolved, and the text holds its link,
\* what the user typed and the placeholder of the pdf.
C21_Witness ==
    /\ Len(tasks) = 2
    /\ edits = 1
    /\ IsUploadAt(1, 1, {"success"})
    /\ IsUploadAt(2, 1, {"reading", "posting"})
    /\ tasks[1].jobs[1].name # tasks[2].jobs[1].name
    /\ Occurs(tasks[1].jobs[1].before, placeholderOf(tasks[2].jobs[1].name))
    /\ Occurs(tasks[1].jobs[1].before, <<"x">>)
    /\ Occurs(doc, placeholderOf(tasks[2].jobs[1].name))
    /\ Occurs(doc, <<"x">>)
    /\ Occurs(doc, <<"![](">>)

\* Every event so far has started the upload of its first image, none has
\* resolved and the user has typed nothing: the handlers put the placeholders
\* in one after the other, so the text is the placeholders of the tasks in
\* the order of their events.
AllPending ==
    /\ edits = 0
    /\ \A t \in Tasks :
           /\ Len(tasks[t].jobs) = 1
           /\ tasks[t].jobs[1].phase = "images"
           /\ IsUploadAt(t, 1, {"reading", "posting"})

\* Where the placeholder that task t put in begins, while AllPending.
RECURSIVE OwnPlaceholderAt(_)
OwnPlaceholderAt(t) ==
    IF t = 1 THEN 1
    ELSE OwnPlaceholderAt(t - 1) + Len(placeholderOf(tasks[t - 1].jobs[1].name))

\* C22 as stated: of uploads pending at the same time, with no user edit,
\* each one's substitution takes the placeholder this upload put in: when one
\* of them succeeds (its URL without "$", see C9), the text written is the
\* text read with the link in the place of its own placeholder.
C22_OwnPlaceholderConsumed ==
    [][\A t \in 1..MaxEvents :
           (AllPending /\ Len(tasks) >= 2 /\ t <= Len(tasks)
            /\ tasks'[t].jobs[1].pc = "success"
            /\ ~Occurs(tasks'[t].jobs[1].result.url, <<"$">>)) =>
               LET job == tasks'[t].jobs[1]
                   own == OwnPlaceholderAt(t)
               IN job.after = SubSeq(doc, 1, own - 1)
                              \o ExpectedLink(job.name, job.result.url)
                              \o SubSeq(doc, own + Len(placeholderOf(job.name)), Len(doc))]_vars

\* The jobs started for pdf m of task t.
PdfJobs(t, m) ==
    {k \in JobsOf(t) : tasks[t].jobs[k].phase = "pdfs" /\ tasks[t].jobs[k].idx = m}

\* C23: the first settlement of the prompt decides, once: a click on "Upload
\* to API" starts the upload of the pdf asked about (its placeholder goes in),
\* although close() then calls resolve(false); a click on "Save locally"
\* starts its local save; either starts one job, and no pdf ever has more
\* than one job, so none is both uploaded and saved or handled twice.
C23_FirstAnswerDecidesOnce ==
    /\ [][\A t \in 1..MaxEvents :
            /\ AskResolves(t, clickUploadToApi("pending")) =>
                   /\ Len(tasks'[t].jobs) = Len(tasks[t].jobs) + 1
                   /\ tasks'[t].jobs[Len(tasks'[t].jobs)].kind = "upload"
                   /\ tasks'[t].jobs[Len(tasks'[t].jobs)].name = tasks[t].pdfs[tasks[t].j]
                   /\ tasks'[t].jobs[Len(tasks'[t].jobs)].idx = tasks[t].j
                   /\ Len(doc') = Len(doc) + Len(placeholderOf(tasks[t].pdfs[tasks[t].j]))
                   /\ vault' = vault
            /\ AskResolves(t, clickSaveLocally("pending")) =>
                   /\ Len(tasks'[t].jobs) = Len(tasks[t].jobs) + 1
                   /\ tasks'[t].jobs[Len(tasks'[t].jobs)].kind = "save"
                   /\ tasks'[t].jobs[Len(tasks'[t].jobs)].name = tasks[t].pdfs[tasks[t].j]
                   /\ tasks'[t].jobs[Len(tasks'[t].jobs)].idx = tasks[t].j
                   /\ doc' = doc
                   /\ requests' = requests]_vars
    /\ [](\A t \in Tasks : \A m \in 1..Len(tasks[t].pdfs) :
              /\ Cardinality(PdfJobs(t, m)) <= 1
              /\ \A k \in PdfJobs(t, m) :
                     IF tasks[t].jobs[k].kind = "upload"
                     THEN \A n \in 1..Len(vault) : vault[n].by # <<t, k>>
                     ELSE RequestsBy(t, k) = {})

\* A pdf dropped alone while the PDF handling is "Ask each time" has been
\* uploaded: "Upload to API" was clicked, the close after it changed nothing.
C23_Witness ==
    \E t \in Tasks :
        /\ evt.task = t
        /\ evt.pdfHandling = "ask"
        /\ tasks[t].images = <<>>
        /\ Len(tasks[t].pdfs) = 1
        /\ Len(tasks[t].jobs) = 1
        /\ IsUploadAt(t, 1, {"success"})
        /\ RequestsBy(t, 1) # {}
        /\ vault = <<>>

====
